---- MODULE Spec2Model ----
(***************************************************************************)
(* Model of webrtcperf-vmaf-utils: the orchestrator ffmpeg_encoder         *)
(* (src/src/encoder.rs) and the per-stream Transcoder                      *)
(* (src/src/transcoder.rs).                                                *)
(*                                                                         *)
(* Texts (paths, recognized text) are sequences of one-character strings.  *)
(* Regular expressions are modelled by their leftmost-first, greedy match. *)
(***************************************************************************)
EXTENDS Integers, Sequences, FiniteSets, TLC

VARIABLES
    pc,               \* position of ffmpeg_encoder
    mode,             \* "Watermark" | "Process"
    input_file,       \* path given by the caller
    output_file,      \* derived output path (encoder.rs:37-40)
    disk_file,        \* path under which the produced output file exists, or None
    streams,          \* media type of every input stream, by input index
    stream_mapping,   \* encoder.rs:63, filled up to the stream being set up
    ist_time_bases,   \* encoder.rs:64
    ost_time_bases,   \* encoder.rs:65
    transcoders,      \* encoder.rs:66, HashMap ist_index -> Transcoder
    ost_index,        \* encoder.rs:67
    octx,             \* output container: header, packets, trailer
    receiver,         \* messages in flight on the cancellation channel
    ist_index,        \* the loop variable of the stream, packet and flush loops
    iter,             \* keys the flush loop's transcoders.iter_mut() has visited
    frame,            \* the local `frame` of receive_and_process_decoded_frames
    io                \* the environment: packets demuxed, signals sent, last poll result,
                      \* whether the decoder has reported an error, the caller's watermark id

vars == <<pc, mode, input_file, output_file, disk_file, streams, stream_mapping,
          ist_time_bases, ost_time_bases, transcoders, ost_index, octx, receiver,
          ist_index, iter, frame, io>>

None == [some |-> FALSE]

Some(v) == [some |-> TRUE, v |-> v]

----------------------------------------------------------------------------
(* Characters *)

Digits == {"0", "1", "2", "3", "4", "5", "6", "7", "8", "9"}

Letters ==
    {"a", "b", "c", "d", "e", "f", "g", "h", "i", "j", "k", "l", "m", "n", "o", "p",
     "q", "r", "s", "t", "u", "v", "w", "x", "y", "z"}

\* \w of the regex crate, over the characters the model uses
WordChars == Letters \cup Digits \cup {"_"}

Whitespace == {" ", "\n"}

DigitVal(c) ==
    CASE c = "0" -> 0 [] c = "1" -> 1 [] c = "2" -> 2 [] c = "3" -> 3 [] c = "4" -> 4
      [] c = "5" -> 5 [] c = "6" -> 6 [] c = "7" -> 7 [] c = "8" -> 8 [] c = "9" -> 9

DigitChar(d) == <<"0", "1", "2", "3", "4", "5", "6", "7", "8", "9">>[d + 1]

Max(S) == CHOOSE x \in S : \A y \in S : y <= x

Min(S) == CHOOSE x \in S : \A y \in S : x <= y

\* all sequences over A of length lo..hi
SeqsOf(A, lo, hi) == UNION {[1..n -> A] : n \in lo..hi}

----------------------------------------------------------------------------
(* Output naming, encoder.rs:35-40 and 141-146 *)

\* Regex (^.+)\.\w+$ on s: the lengths of group 1 over all ways the pattern matches
OutputReMatches(s) ==
    {i \in 1..(Len(s) - 2) :
        /\ \A j \in 1..i : s[j] # "\n"
        /\ s[i + 1] = "."
        /\ \A j \in (i + 2)..Len(s) : s[j] \in WordChars}

\* encoder.rs:35
WithWatermark(m) == m = "Watermark"

\* a variant of Replacement with one suffix for both modes
ReplacementSame(with_watermark) == <<".", "i", "v", "f">>

\* encoder.rs:36
Replacement(with_watermark) ==
    IF with_watermark THEN <<".", "i", "v", "f">> ELSE <<".", "r", ".", "i", "v", "f">>

\* Regex::replace with "$1" ++ suffix: the greedy group 1, then the suffix; the text
\* itself when the pattern does not match
OutputReReplace(s, suffix) ==
    IF OutputReMatches(s) = {} THEN s
    ELSE SubSeq(s, 1, Max(OutputReMatches(s))) \o suffix

\* a variant of DeriveOutputFile that steps aside when the derived path is
\* already on disk (the check that encoder.rs:45-47 leaves commented out)
DeriveOutputFileUnused(path, m) ==
    LET derived == OutputReReplace(path, Replacement(WithWatermark(m)))
    IN  IF disk_file = Some(derived) THEN derived \o <<"-">> ELSE derived

\* encoder.rs:35-40
DeriveOutputFile(path, m) == OutputReReplace(path, Replacement(WithWatermark(m)))

\* Regex (\..+)$ on s: the start positions at which the pattern matches
RenameReMatches(s) ==
    {p \in 1..(Len(s) - 1) :
        /\ s[p] = "."
        /\ \A j \in (p + 1)..Len(s) : s[j] # "\n"}

\* encoder.rs:142-145: the leftmost match is replaced by ".{id}.ivf"
NewOutputFile(path, id) ==
    IF RenameReMatches(path) = {} THEN path
    ELSE SubSeq(path, 1, Min(RenameReMatches(path)) - 1)
            \o <<".">> \o id \o <<".", "i", "v", "f">>

----------------------------------------------------------------------------
(* Integers wider than 32 bits: little-endian sequences of limbs in base 10000,
   without leading zero limbs; <<>> is zero *)

RECURSIVE BigNorm(_)
BigNorm(a) == IF a # <<>> /\ a[Len(a)] = 0 THEN BigNorm(SubSeq(a, 1, Len(a) - 1)) ELSE a

RECURSIVE BigMulAddRec(_, _, _, _)
BigMulAddRec(a, k, carry, i) ==
    IF i > Len(a)
    THEN (IF carry = 0 THEN <<>>
          ELSE <<carry % 10000>> \o BigMulAddRec(a, k, carry \div 10000, i))
    ELSE <<(a[i] * k + carry) % 10000>> \o BigMulAddRec(a, k, (a[i] * k + carry) \div 10000, i + 1)

\* a * k + c for small k, c
BigMulAdd(a, k, c) == BigNorm(BigMulAddRec(a, k, c, 1))

BigDouble(a) == BigMulAdd(a, 2, 0)

BigInc(a) == BigMulAdd(a, 1, 1)

RECURSIVE BigDivRec(_, _, _, _)
BigDivRec(a, k, rem, i) ==
    IF i = 0 THEN <<>>
    ELSE BigDivRec(a, k, (rem * 10000 + a[i]) % k, i - 1) \o <<(rem * 10000 + a[i]) \div k>>

\* floor(a / k) for small k
BigDivSmall(a, k) == BigNorm(BigDivRec(a, k, 0, Len(a)))

BigHalf(a) == BigDivSmall(a, 2)

BigIsOdd(a) == a # <<>> /\ a[1] % 2 = 1

RECURSIVE BigCmpRec(_, _, _)
BigCmpRec(a, b, i) ==
    IF i = 0 THEN 0
    ELSE IF a[i] < b[i] THEN -1
    ELSE IF a[i] > b[i] THEN 1
    ELSE BigCmpRec(a, b, i - 1)

\* -1, 0, 1 as a < b, a = b, a > b
BigCmp(a, b) ==
    IF Len(a) < Len(b) THEN -1
    ELSE IF Len(a) > Len(b) THEN 1
    ELSE BigCmpRec(a, b, Len(a))

RECURSIVE BigSubRec(_, _, _, _)
BigSubRec(a, b, borrow, i) ==
    IF i > Len(a) THEN <<>>
    ELSE LET bi == IF i <= Len(b) THEN b[i] ELSE 0
             d == a[i] - bi - borrow
         IN  <<(d + 10000) % 10000>> \o BigSubRec(a, b, IF d < 0 THEN 1 ELSE 0, i + 1)

\* a - b for a >= b
BigSub(a, b) == BigNorm(BigSubRec(a, b, 0, 1))

RECURSIVE BigFromDigitsRec(_, _)
BigFromDigitsRec(ds, n) ==
    IF n = 0 THEN <<>> ELSE BigMulAdd(BigFromDigitsRec(ds, n - 1), 10, DigitVal(ds[n]))

\* the value of a decimal digit string
BigFromDigits(ds) == BigFromDigitsRec(ds, Len(ds))

BigFromInt(n) == BigMulAdd(<<>>, 1, n)

RECURSIVE BigToInt(_)
BigToInt(a) == IF a = <<>> THEN 0 ELSE a[1] + 10000 * BigToInt(Tail(a))

RECURSIVE BigShl(_, _)
BigShl(a, k) == IF k = 0 \/ a = <<>> THEN a ELSE BigShl(BigDouble(a), k - 1)

RECURSIVE BigShr(_, _)
BigShr(a, k) == IF k = 0 \/ a = <<>> THEN a ELSE BigShr(BigHalf(a), k - 1)

----------------------------------------------------------------------------
(* f64 arithmetic.  A finite non-negative double is [m, e] standing for m * 2^e
   with m < 2^53; the results of F64Div are normalised, 2^52 <= m < 2^53. *)

F64Zero == [m |-> <<>>, e |-> 0]

\* an integer below 2^53 is exact
F64FromBig(a) == [m |-> a, e |-> 0]

\* 2^53
F64MantLimit == BigShl(<<1>>, 53)

\* i64::MAX
I64Max == BigSub(BigShl(<<1>>, 63), <<1>>)

\* scale so that b <= a < 2b: the binary exponent of a / b
RECURSIVE DivScale(_, _, _)
DivScale(a, b, e) ==
    IF BigCmp(a, b) < 0 THEN DivScale(BigDouble(a), b, e - 1)
    ELSE IF BigCmp(a, BigDouble(b)) >= 0 THEN DivScale(a, BigDouble(b), e + 1)
    ELSE [a |-> a, b |-> b, e |-> e]

\* n more quotient bits of r / b appended to q (q >= 1)
RECURSIVE DivBits(_, _, _, _)
DivBits(q, r, b, n) ==
    IF n = 0 \/ q = <<>> THEN [q |-> q, r |-> r]
    ELSE LET r2 == BigDouble(r)
         IN  IF BigCmp(r2, b) >= 0
             THEN DivBits(BigInc(BigDouble(q)), BigSub(r2, b), b, n - 1)
             ELSE DivBits(BigDouble(q), r2, b, n - 1)

\* a / b * 2^e0 rounded to the nearest double, ties to even (a, b > 0)
RoundedQuotient(a, b, e0) ==
    LET s == DivScale(a, b, 0)
        d == DivBits(<<1>>, BigSub(s.a, s.b), s.b, 53)
        m == BigHalf(d.q)
        up == BigIsOdd(d.q) /\ (d.r # <<>> \/ BigIsOdd(m))
        m1 == IF up THEN BigInc(m) ELSE m
    IN  IF m1 = F64MantLimit
        THEN [m |-> BigHalf(m1), e |-> e0 + s.e - 52 + 1]
        ELSE [m |-> m1, e |-> e0 + s.e - 52]

\* the f64 operator / on finite non-negative operands, y # 0
F64Div(x, y) ==
    IF x.m = <<>> THEN F64Zero ELSE RoundedQuotient(x.m, y.m, x.e - y.e)

\* `as i64`: truncation toward zero, saturating
F64ToI64(x) ==
    LET v == IF x.e >= 0 THEN BigShl(x.m, x.e) ELSE BigShr(x.m, 0 - x.e)
    IN  IF BigCmp(v, I64Max) > 0 THEN I64Max ELSE v

\* f64::from(Rational): numerator as f64 / denominator as f64
F64FromRational(tb) == F64Div(F64FromBig(BigFromInt(tb[1])), F64FromBig(BigFromInt(tb[2])))


----------------------------------------------------------------------------
(* Recognition of the burned-in text, transcoder.rs:190 and 256-283 *)

\* {1,3} of frame_re
IdMaxDigits == 3

\* {1,13} of frame_re
TimeMaxDigits == 13

RECURSIVE TrimStart(_)
TrimStart(s) == IF s # <<>> /\ Head(s) \in Whitespace THEN TrimStart(Tail(s)) ELSE s

RECURSIVE TrimEnd(_)
TrimEnd(s) ==
    IF s # <<>> /\ s[Len(s)] \in Whitespace THEN TrimEnd(SubSeq(s, 1, Len(s) - 1)) ELSE s

\* str::trim
Trim(s) == TrimEnd(TrimStart(s))

AllDigits(s, from, to) == \A j \in from..to : s[j] \in Digits

\* frame_re = (?<id>[0-9]{1,3})-(?<time>[0-9]{1,13}): every <<start, id length,
\* time length>> at which the pattern matches s
FrameReMatches(s) ==
    {t \in (1..Len(s)) \X (1..IdMaxDigits) \X (1..TimeMaxDigits) :
        /\ t[1] + t[2] + t[3] <= Len(s)
        /\ AllDigits(s, t[1], t[1] + t[2] - 1)
        /\ s[t[1] + t[2]] = "-"
        /\ AllDigits(s, t[1] + t[2] + 1, t[1] + t[2] + t[3])}

\* a variant of Captures whose time repetition is lazy: the shortest time
CapturesLazy(s) ==
    LET M == FrameReMatches(s)
    IN  IF M = {} THEN None
        ELSE LET i == Min({t[1] : t \in M})
                 a == Max({t[2] : t \in {u \in M : u[1] = i}})
             IN  Some([id |-> SubSeq(s, i, i + a - 1),
                       time |-> SubSeq(s, i + a + 1, i + a + 1)])

\* Regex::captures: the leftmost match, each repetition greedy; None without a match
Captures(s) ==
    LET M == FrameReMatches(s)
    IN  IF M = {} THEN None
        ELSE LET i == Min({t[1] : t \in M})
                 a == Max({t[2] : t \in {u \in M : u[1] = i}})
                 b == Max({t[3] : t \in {u \in M : u[1] = i /\ u[2] = a}})
             IN  Some([id |-> SubSeq(s, i, i + a - 1),
                       time |-> SubSeq(s, i + a + 1, i + a + b)])

\* c["id"].parse::<i32>(): at most three digits, never out of range
ParseI32(ds) == BigToInt(BigFromDigits(ds))

\* c["time"].parse::<f64>(): at most thirteen digits, exact
ParseF64(ds) == F64FromBig(BigFromDigits(ds))

\* transcoder.rs:265
FrameTime(c) == F64Div(ParseF64(c.time), F64FromBig(BigFromInt(1000)))

\* transcoder.rs:266
PtsNew(time, input_time_base) == F64ToI64(F64Div(time, F64FromRational(input_time_base)))


----------------------------------------------------------------------------
(* Bounds and input sets *)

MaxStreams == 2

MaxPackets == 2

MaxSignals == 1

Modes == {"Watermark", "Process"}

Str_clip_mp4 == <<"c", "l", "i", "p", ".", "m", "p", "4">>

\* input paths of the pipeline runs
RunPaths == {Str_clip_mp4}

NoTimeBase == <<0, 0>>

InputTimeBases == {<<1, 1000>>}

\* encoder.rs:97: the time base the muxer gives output stream o, one per stream
MuxerTimeBase(o) == <<1, 600 * (o + 1)>>

StreamSet ==
    {[medium |-> "Video", time_base |-> tb] : tb \in InputTimeBases}
        \cup {[medium |-> "Audio", time_base |-> <<1, 48000>>]}

\* what the recognizer can return for a frame
FrameTexts ==
    { <<"7", "-", "4", "3", "\n">>,
      <<"1", "2", "-", "1", "0", "0", "0", "\n">>,
      <<"7", " ", "4", "3", "\n">> }

\* presentation timestamps the decoder can give a frame
FramePts == {<<40>>}

\* the texts `<id>-<ms>` of every id width and of millisecond values up to the
\* widest, and texts that are not of that form
IdStrings == SeqsOf({"0", "7"}, 1, IdMaxDigits)

Nines(n) == [i \in 1..n |-> "9"]

MsStrings ==
    { <<"0">>, <<"1">>, <<"4", "3">>, <<"8", "7">>, <<"1", "0", "0", "0">>,
      <<"1", "2", "3", "4">>, <<"0", "0", "4", "3">>,
      <<"1", "2", "3", "4", "5", "6", "7", "8", "9", "0", "1", "2", "3">>,
      Nines(TimeMaxDigits) }

OtherTexts ==
    { <<>>, <<"7">>, <<"7", "-">>, <<"-", "4", "3">>, <<"-", "-">>,
      <<"7", "-", "-", "4", "3">>, <<"7", " ", "-", "4", "3", "\n">>,
      <<"9", " ", "7", "-", "4", "3", " ", "9">>,
      <<"1", "2", "3", "4", "-", "5">>, <<"7", "-">> \o Nines(TimeMaxDigits + 1) }

WideTexts ==
    {id \o <<"-", "4", "3">> : id \in IdStrings}
        \cup {id \o <<"-">> \o ms : id \in {<<"7">>, <<"0", "1", "2">>}, ms \in MsStrings}
        \cup {<<"7", "-", "1", "2", "3", "4", "\n">>}
        \cup OtherTexts

WideTimeBases == {<<1, 1000>>, <<1, 25>>, <<1, 90000>>, <<1001, 30000>>}

AllTexts == FrameTexts \cup WideTexts

AllTimeBases == InputTimeBases \cup WideTimeBases

Str_42 == <<"4", "2">>

\* encoder.rs:14-27: watermark_video passes the id its caller gives, process_video
\* passes none
CallerWatermarkId(m) == IF m = "Watermark" THEN Some(Str_42) ELSE None

\* values a caller can send on the cancellation channel
Signals == {"stop", "quit"}

----------------------------------------------------------------------------
(* Transcoder, transcoder.rs *)

\* how ffmpeg_encoder's mode selects the recognizer of Transcoder::new
WithRecognition(m) == m = "Process"

\* transcoder.rs:83-195
TranscoderNew(ist, ost, enable_logging, with_watermark, with_recognition) ==
    [ost_index |-> ost,
     input_time_base |-> ist.time_base,
     logging_enabled |-> enable_logging,
     frame_count |-> 0,
     failed_frames |-> 0,
     watermark_filter |-> with_watermark,
     overlay_id |-> IF with_watermark THEN Some(<<"1">>) ELSE None,
     tesseract |-> with_recognition,
     recognized_id |-> None,
     decoder |-> [pending |-> 0, eof |-> FALSE],
     encoder |-> [queue |-> <<>>, eof |-> FALSE],
     calls |-> <<>>]

\* a variant of RecognizedId in which the last recognized id wins
RecognizedIdLast(old, id) == Some(id)

\* the first recognized id is the stream's identity
RecognizedId(old, id) == IF old.some THEN old ELSE Some(id)

\* av_rescale_q(pts, from, to), rounding to nearest; AV_NOPTS_VALUE when the
\* divisor is not positive
RescaleTs(pts, from, to) ==
    LET c == from[2] * to[1]
    IN  IF c <= 0 THEN "NOPTS"
        ELSE BigDivSmall(BigDivSmall(
                BigMulAdd(BigMulAdd(BigMulAdd(pts, from[1], 0), to[2], 0), 1, c \div 2),
                from[2]), to[1])

\* transcoder.rs:313-315 for one packet
EncodedPacket(t, pts, ost_time_base) ==
    [stream |-> t.ost_index,
     pts |-> RescaleTs(pts, t.input_time_base, ost_time_base),
     time_base |-> ost_time_base]

\* how many packets receive_packet hands out when the encoder has at most `ready`
\* packets ready: all that it holds once it was sent end-of-stream
Released(enc, ready) ==
    IF enc.eof \/ ready >= Len(enc.queue) THEN Len(enc.queue) ELSE ready

\* transcoder.rs:306-317
ReceiveEncodedPackets(t, ost_time_base, ready) ==
    LET n == Released(t.encoder, ready)
    IN  [t |-> [t EXCEPT !.encoder.queue = SubSeq(@, n + 1, Len(@))],
         written |-> [i \in 1..n |-> EncodedPacket(t, t.encoder.queue[i], ost_time_base)]]

\* transcoder.rs:298-300
SendFrameToEncoder(t, pts) == [t EXCEPT !.encoder.queue = Append(@, pts)]

\* transcoder.rs:258-266: the outcome of frame_re.captures(output.trim()) and, on a
\* match, the closure's locals id, time and pts_new
Recognition(text, input_time_base) ==
    LET c == Captures(Trim(text))
    IN  IF ~c.some THEN None
        ELSE LET time == FrameTime(c.v)
             IN  Some([id |-> ParseI32(c.v.id),
                       time |-> time,
                       pts_new |-> PtsNew(time, input_time_base)])

\* Recognition is a function of the text and the time base alone: its graph over
\* the texts and time bases of the runs below
RecognitionTable ==
    [x \in AllTexts \X AllTimeBases |-> Recognition(x[1], x[2])] @@ <<>>

Recognize(text, input_time_base) == RecognitionTable[<<text, input_time_base>>]

\* integer to decimal text
RECURSIVE ToDecimal(_)
ToDecimal(n) == IF n < 10 THEN <<DigitChar(n)>> ELSE ToDecimal(n \div 10) \o <<DigitChar(n % 10)>>

\* a variant of UnrecognizedFrame that forwards the frame instead of counting it
UnrecognizedFrameForwarded(t, pts, text) ==
    [t |-> SendFrameToEncoder(t, pts),
     written |-> <<>>,
     frame |-> [text |-> text, pts_in |-> pts, pts |-> pts, recognized |-> None,
                sent |-> 1, filtered |-> FALSE]]

\* a variant of UnrecognizedFrame that does not count the failure
UnrecognizedFrameUncounted(t, pts, text) ==
    [t |-> t,
     written |-> <<>>,
     frame |-> [text |-> text, pts_in |-> pts, pts |-> pts, recognized |-> None,
                sent |-> 0, filtered |-> FALSE]]

\* transcoder.rs:258-262 and 282: the text does not match
UnrecognizedFrame(t, pts, text) ==
    [t |-> [t EXCEPT !.failed_frames = @ + 1],
     written |-> <<>>,
     frame |-> [text |-> text, pts_in |-> pts, pts |-> pts, recognized |-> None,
                sent |-> 0, filtered |-> FALSE]]

\* transcoder.rs:263-280: the text matches, r holds id, time and pts_new
RecognizedFrame(t, pts, text, r, ost_time_base, ready) ==
    LET t2 == SendFrameToEncoder(
                [t EXCEPT !.recognized_id = RecognizedId(@, ToDecimal(r.id))], r.pts_new)
        w == ReceiveEncodedPackets(t2, ost_time_base, ready)
    IN  [t |-> w.t,
         written |-> w.written,
         frame |-> [text |-> text, pts_in |-> pts, pts |-> r.pts_new,
                    recognized |-> Some([id |-> r.id, time |-> r.time]),
                    sent |-> 1, filtered |-> FALSE]]

\* a variant of OverlayFrame that drops the frame
OverlayFrameDropped(t, pts, ost_time_base, ready) ==
    [t |-> t,
     written |-> <<>>,
     frame |-> [text |-> <<>>, pts_in |-> pts, pts |-> pts, recognized |-> None,
                sent |-> 0, filtered |-> FALSE]]

\* transcoder.rs:285-293: no recognizer; the overlay filter, when there is one,
\* gives a frame with the same pts
OverlayFrame(t, pts, ost_time_base, ready) ==
    LET w == ReceiveEncodedPackets(SendFrameToEncoder(t, pts), ost_time_base, ready)
    IN  [t |-> w.t,
         written |-> w.written,
         frame |-> [text |-> <<>>, pts_in |-> pts, pts |-> pts, recognized |-> None,
                    sent |-> 1, filtered |-> t.watermark_filter]]

\* transcoder.rs:258-283: map_or_else on the captures c of the frame's text
CapturesMapOrElse(t, pts, text, c, ost_time_base, ready) ==
    IF ~c.some THEN UnrecognizedFrame(t, pts, text)
    ELSE RecognizedFrame(t, pts, text, c.v, ost_time_base, ready)

\* transcoder.rs:213-294, the body of the while loop for one decoded frame with
\* pts `pts` and recognizer output `text`
ProcessDecodedFrame(t, pts, text, ost_time_base, ready) ==
    IF t.tesseract
    THEN CapturesMapOrElse([t EXCEPT !.frame_count = @ + 1, !.decoder.pending = @ - 1],
                           pts, text, Recognize(text, t.input_time_base),
                           ost_time_base, ready)
    ELSE OverlayFrame([t EXCEPT !.frame_count = @ + 1, !.decoder.pending = @ - 1],
                      pts, ost_time_base, ready)

----------------------------------------------------------------------------
(* ffmpeg_encoder, encoder.rs:29-153 *)

NoFrame ==
    [text |-> <<>>, pts_in |-> <<>>, pts |-> <<>>, recognized |-> None, sent |-> 0,
     filtered |-> FALSE]

NoTranscoders == [i \in {} |-> 0]

StreamLists == UNION {[0..(n - 1) -> StreamSet] : n \in 0..MaxStreams}

Init ==
    /\ pc = "start"
    /\ mode \in Modes
    /\ input_file \in RunPaths
    /\ output_file = <<>>
    /\ disk_file = None
    /\ streams \in StreamLists
    /\ stream_mapping = [i \in {} |-> 0]
    /\ ist_time_bases = [i \in {} |-> NoTimeBase]
    /\ ost_time_bases = [i \in {} |-> NoTimeBase]
    /\ transcoders = NoTranscoders
    /\ ost_index = 0
    /\ octx = [streams |-> 0, header |-> FALSE, packets |-> <<>>, trailer |-> 0]
    /\ receiver = <<>>
    /\ ist_index = 0
    /\ iter = {}
    /\ frame = NoFrame
    /\ io = [nread |-> 0, nsent |-> 0, recv |-> None,
             decoder_error |-> FALSE, watermark_id |-> CallerWatermarkId(mode),
             earlier |-> None, in_handling |-> <<>>]

\* the stream the `best` heuristic names: here the first video stream
BestVideoStream(ss) ==
    IF \E i \in DOMAIN ss : ss[i].medium = "Video"
    THEN Some(Min({i \in DOMAIN ss : ss[i].medium = "Video"}))
    ELSE None

\* a variant of MappedOrdinal that carries every stream, as src/main.rs does
MappedOrdinalAll(medium, ost) == ost

\* encoder.rs:69-74: the stream_mapping entry of a stream
MappedOrdinal(medium, ost) == IF medium # "Video" THEN -1 ELSE ost

\* encoder.rs:35-67
Open ==
    /\ pc = "start"
    /\ output_file' = DeriveOutputFile(input_file, mode)
    /\ disk_file' = Some(output_file')
    /\ stream_mapping' = [i \in DOMAIN streams |-> 0]
    /\ ist_time_bases' = [i \in DOMAIN streams |-> NoTimeBase]
    /\ ost_time_bases' = [i \in DOMAIN streams |-> NoTimeBase]
    /\ ost_index' = 0
    /\ ist_index' = 0
    /\ pc' = "streams"
    /\ UNCHANGED <<mode, input_file, streams, transcoders, octx, receiver, iter, frame, io>>

\* encoder.rs:68-73, a stream that is not video
SkipStream ==
    /\ pc = "streams"
    /\ ist_index \in DOMAIN streams
    /\ MappedOrdinal(streams[ist_index].medium, ost_index) < 0
    /\ stream_mapping' = [stream_mapping EXCEPT ![ist_index] =
                                MappedOrdinal(streams[ist_index].medium, ost_index)]
    /\ ist_index' = ist_index + 1
    /\ UNCHANGED <<pc, mode, input_file, output_file, disk_file, streams, ist_time_bases,
                   ost_time_bases, transcoders, ost_index, octx, receiver, iter, frame, io>>

\* encoder.rs:68-89, a video stream
CarryStream ==
    /\ pc = "streams"
    /\ ist_index \in DOMAIN streams
    /\ MappedOrdinal(streams[ist_index].medium, ost_index) >= 0
    /\ stream_mapping' = [stream_mapping EXCEPT ![ist_index] =
                                MappedOrdinal(streams[ist_index].medium, ost_index)]
    /\ ist_time_bases' = [ist_time_bases EXCEPT ![ist_index] = streams[ist_index].time_base]
    /\ transcoders' = transcoders @@
            (ist_index :> TranscoderNew(streams[ist_index], ost_index,
                                        Some(ist_index) = BestVideoStream(streams),
                                        WithWatermark(mode), WithRecognition(mode)))
    /\ octx' = [octx EXCEPT !.streams = @ + 1]
    /\ ost_index' = ost_index + 1
    /\ ist_index' = ist_index + 1
    /\ UNCHANGED <<pc, mode, input_file, output_file, disk_file, streams, ost_time_bases,
                   receiver, iter, frame, io>>

\* encoder.rs:91-98: the muxer fixes the time base of every output stream
WriteHeader ==
    /\ pc = "streams"
    /\ ist_index \notin DOMAIN streams
    /\ ost_time_bases' = [i \in DOMAIN ost_time_bases |->
                            IF i < octx.streams THEN MuxerTimeBase(i) ELSE ost_time_bases[i]]
    /\ octx' = [octx EXCEPT !.header = TRUE]
    /\ pc' = "packets"
    /\ UNCHANGED <<mode, input_file, output_file, disk_file, streams, stream_mapping,
                   ist_time_bases, transcoders, ost_index, receiver, ist_index, iter,
                   frame, io>>

\* encoder.rs:100-105: a packet of a stream that is not carried
SkipPacket ==
    /\ pc = "packets"
    /\ io.nread < MaxPackets
    /\ \E s \in DOMAIN streams :
          /\ stream_mapping[s] < 0
          /\ ist_index' = s
    /\ io' = [io EXCEPT !.nread = @ + 1]
    /\ pc' = "skipped"
    /\ UNCHANGED <<mode, input_file, output_file, disk_file, streams, stream_mapping,
                   ist_time_bases, ost_time_bases, transcoders, ost_index, octx, receiver,
                   iter, frame>>

\* encoder.rs:103-105: `continue` takes the loop to the next packet
SkipContinue ==
    /\ pc = "skipped"
    /\ pc' = "packets"
    /\ UNCHANGED <<mode, input_file, output_file, disk_file, streams, stream_mapping,
                   ist_time_bases, ost_time_bases, transcoders, ost_index, octx, receiver,
                   ist_index, iter, frame, io>>

\* encoder.rs:100-108 and transcoder.rs:197-199: the decoder takes the packet
FeedPacket ==
    /\ pc = "packets"
    /\ io.nread < MaxPackets
    /\ \E s \in DOMAIN streams :
          /\ stream_mapping[s] >= 0
          /\ ist_index' = s
          /\ transcoders' = [transcoders EXCEPT ![s].decoder.pending = @ + 1]
    /\ io' = [io EXCEPT !.nread = @ + 1]
    /\ pc' = "decoding"
    /\ UNCHANGED <<mode, input_file, output_file, disk_file, streams, stream_mapping,
                   ist_time_bases, ost_time_bases, ost_index, octx, receiver, iter, frame>>

\* transcoder.rs:198: the decoder rejects the packet and unwrap panics
FeedPacketPanics ==
    /\ pc = "packets"
    /\ io.nread < MaxPackets
    /\ \E s \in DOMAIN streams :
          /\ stream_mapping[s] >= 0
          /\ ist_index' = s
    /\ io' = [io EXCEPT !.nread = @ + 1, !.decoder_error = TRUE]
    /\ pc' = "panicked"
    /\ UNCHANGED <<mode, input_file, output_file, disk_file, streams, stream_mapping,
                   ist_time_bases, ost_time_bases, transcoders, ost_index, octx, receiver,
                   iter, frame>>

\* encoder.rs:100: the input has no more packets
EndOfInput ==
    /\ pc = "packets"
    /\ pc' = "flush"
    /\ UNCHANGED <<mode, input_file, output_file, disk_file, streams, stream_mapping,
                   ist_time_bases, ost_time_bases, transcoders, ost_index, octx, receiver,
                   ist_index, iter, frame, io>>

\* the `ost_time_base` passed to the transcoder: encoder.rs:106 in the packet loop,
\* encoder.rs:124 in the flush loop
OstTimeBase ==
    IF pc = "decoding" THEN ost_time_bases[stream_mapping[ist_index]]
    ELSE ost_time_bases[ist_index]

\* transcoder.rs:212-295, one turn of the while loop: the decoder has a frame, with
\* a pts of ptss and, for the recognizer, a text of texts
ProcessFrameOf(ptss, texts) ==
    /\ pc \in {"decoding", "flush_decoding"}
    /\ transcoders[ist_index].decoder.pending > 0
    /\ \E pts \in ptss :
       \E text \in (IF transcoders[ist_index].tesseract THEN texts ELSE {<<>>}) :
       \E ready \in 0..(Len(transcoders[ist_index].encoder.queue) + 1) :
       \E r \in {ProcessDecodedFrame(transcoders[ist_index], pts, text, OstTimeBase, ready)} :
          /\ transcoders' = [transcoders EXCEPT ![ist_index] = r.t]
          /\ octx' = [octx EXCEPT !.packets = @ \o r.written]
          /\ frame' = r.frame
    /\ UNCHANGED <<pc, mode, input_file, output_file, disk_file, streams, stream_mapping,
                   ist_time_bases, ost_time_bases, ost_index, receiver, ist_index, iter, io>>

ProcessFrame == ProcessFrameOf(FramePts, FrameTexts)

\* transcoder.rs:212 and encoder.rs:109: receive_frame has nothing (yet), the call
\* returns to the packet loop
FramesDrained ==
    /\ pc = "decoding"
    /\ pc' = "poll"
    /\ UNCHANGED <<mode, input_file, output_file, disk_file, streams, stream_mapping,
                   ist_time_bases, ost_time_bases, transcoders, ost_index, octx, receiver,
                   ist_index, iter, frame, io>>

\* a variant of IsStop for which every value ends the packet loop
IsStopAny(m) == TRUE

\* transcoder.rs:212 and encoder.rs:109: receive_frame fails with an error of the
\* decoder; is_ok() is false, the while loop ends and the call returns to the
\* packet loop as it does when there is no frame yet
ReceiveFrameFails ==
    /\ pc = "decoding"
    /\ io' = [io EXCEPT !.decoder_error = TRUE]
    /\ pc' = "poll"
    /\ UNCHANGED <<mode, input_file, output_file, disk_file, streams, stream_mapping,
                   ist_time_bases, ost_time_bases, transcoders, ost_index, octx, receiver,
                   ist_index, iter, frame>>

\* encoder.rs:112: the received values that end the packet loop
IsStop(m) == m = "stop"

\* a variant of AfterStop that goes on with the next packet
AfterStopContinue == "packets"

\* a variant of AfterStop that returns without flushing
AfterStopReturn == "post"

\* encoder.rs:114: break leaves the packet loop for the flush loop
AfterStop == "flush"

\* encoder.rs:111-117
TryRecv ==
    /\ pc = "poll"
    /\ IF receiver = <<>>
       THEN /\ pc' = "packets"
            /\ io' = [io EXCEPT !.recv = None]
            /\ UNCHANGED receiver
       ELSE /\ pc' = IF IsStop(Head(receiver)) THEN AfterStop ELSE "packets"
            /\ io' = [io EXCEPT !.recv = Some(Head(receiver)), !.in_handling = Tail(@)]
            /\ receiver' = Tail(receiver)
    /\ UNCHANGED <<mode, input_file, output_file, disk_file, streams, stream_mapping,
                   ist_time_bases, ost_time_bases, transcoders, ost_index, octx, ist_index,
                   iter, frame>>

\* encoder.rs:123-126: the flush loop takes the next transcoder of the map
FlushDecoder ==
    /\ pc = "flush"
    /\ \E k \in DOMAIN transcoders \ iter :
          /\ ist_index' = k
          /\ transcoders' = [transcoders EXCEPT
                ![k].decoder.eof = TRUE,
                ![k].calls = @ \o <<"send_eof_to_decoder",
                                    "receive_and_process_decoded_frames">>]
    /\ pc' = "flush_decoding"
    /\ UNCHANGED <<mode, input_file, output_file, disk_file, streams, stream_mapping,
                   ist_time_bases, ost_time_bases, ost_index, octx, receiver, iter, frame, io>>

\* encoder.rs:126-128: the drain of the decoder returns, because receive_frame
\* reports the end of the stream once the decoder is empty or because it fails
\* (transcoder.rs:212: is_ok() is false either way); the encoder is flushed
FlushEncoder ==
    /\ pc = "flush_decoding"
    /\ \/ transcoders[ist_index].decoder.pending = 0 /\ io' = io
       \/ io' = [io EXCEPT !.decoder_error = TRUE]
    /\ LET t == [transcoders[ist_index] EXCEPT
                    !.encoder.eof = TRUE,
                    !.calls = @ \o <<"send_eof_to_encoder",
                                     "receive_and_process_encoded_packets">>]
           w == ReceiveEncodedPackets(t, OstTimeBase, 0)
       IN  /\ transcoders' = [transcoders EXCEPT ![ist_index] = w.t]
           /\ octx' = [octx EXCEPT !.packets = @ \o w.written]
    /\ iter' = iter \cup {ist_index}
    /\ pc' = "flush"
    /\ UNCHANGED <<mode, input_file, output_file, disk_file, streams, stream_mapping,
                   ist_time_bases, ost_time_bases, ost_index, receiver, ist_index, frame>>

\* encoder.rs:131
WriteTrailer ==
    /\ pc = "flush"
    /\ iter = DOMAIN transcoders
    /\ octx' = [octx EXCEPT !.trailer = @ + 1]
    /\ pc' = "post"
    /\ UNCHANGED <<mode, input_file, output_file, disk_file, streams, stream_mapping,
                   ist_time_bases, ost_time_bases, transcoders, ost_index, receiver,
                   ist_index, iter, frame, io>>

\* encoder.rs:133-141: the transcoders whose id the run can inspect; values().next()
\* is any entry of the map
Inspected == IF mode = "Process" THEN DOMAIN transcoders ELSE {}

\* encoder.rs:133-152 without a rename
Finish ==
    /\ pc = "post"
    /\ \/ Inspected = {}
       \/ \E k \in Inspected : ~transcoders[k].recognized_id.some
    /\ pc' = "done"
    /\ UNCHANGED <<mode, input_file, output_file, disk_file, streams, stream_mapping,
                   ist_time_bases, ost_time_bases, transcoders, ost_index, octx, receiver,
                   ist_index, iter, frame, io>>

\* encoder.rs:141-152: the rename succeeds
Rename ==
    /\ pc = "post"
    /\ \E k \in Inspected :
          /\ transcoders[k].recognized_id.some
          /\ disk_file' = Some(NewOutputFile(input_file, transcoders[k].recognized_id.v))
    /\ pc' = "done"
    /\ UNCHANGED <<mode, input_file, output_file, streams, stream_mapping, ist_time_bases,
                   ost_time_bases, transcoders, ost_index, octx, receiver, ist_index, iter,
                   frame, io>>

\* a variant of RenameFails in which the failed rename has removed the output
RenameFailsRemoving ==
    /\ pc = "post"
    /\ \E k \in Inspected : transcoders[k].recognized_id.some
    /\ disk_file' = None
    /\ pc' = "failed"
    /\ UNCHANGED <<mode, input_file, output_file, streams, stream_mapping,
                   ist_time_bases, ost_time_bases, transcoders, ost_index, octx, receiver,
                   ist_index, iter, frame, io>>

\* encoder.rs:146: std::fs::rename fails and the error is returned
RenameFails ==
    /\ pc = "post"
    /\ \E k \in Inspected : transcoders[k].recognized_id.some
    /\ pc' = "failed"
    /\ UNCHANGED <<mode, input_file, output_file, disk_file, streams, stream_mapping,
                   ist_time_bases, ost_time_bases, transcoders, ost_index, octx, receiver,
                   ist_index, iter, frame, io>>

\* the owner of the sending end puts a value on the channel while the packet loop
\* runs (a value sent later is never read); in_handling keeps, for each value in
\* the channel, whether a packet was being handled when it was sent
SendSignal ==
    /\ pc \in {"packets", "decoding", "skipped"}
    /\ io.nsent < MaxSignals
    /\ \E m \in Signals : receiver' = Append(receiver, m)
    /\ io' = [io EXCEPT !.nsent = @ + 1,
                        !.in_handling = Append(@, pc # "packets")]
    /\ UNCHANGED <<pc, mode, input_file, output_file, disk_file, streams, stream_mapping,
                   ist_time_bases, ost_time_bases, transcoders, ost_index, octx, ist_index,
                   iter, frame>>

Next ==
    \/ Open
    \/ SkipStream
    \/ CarryStream
    \/ WriteHeader
    \/ SkipPacket
    \/ SkipContinue
    \/ FeedPacket
    \/ FeedPacketPanics
    \/ EndOfInput
    \/ ProcessFrame
    \/ FramesDrained
    \/ ReceiveFrameFails
    \/ TryRecv
    \/ FlushDecoder
    \/ FlushEncoder
    \/ WriteTrailer
    \/ Finish
    \/ Rename
    \/ RenameFails
    \/ SendSignal

Spec == Init /\ [][Next]_vars

----------------------------------------------------------------------------
(* One decoded frame of a recognition run, over the wide texts and time bases:
   the runs of Spec between FeedPacket of the first packet and the poll *)

\* presentation timestamps the decoder can give the frame
WidePts == {<<>>, <<40>>, <<9000>>}

InitFrame ==
    /\ pc = "decoding"
    /\ mode = "Process"
    /\ input_file \in RunPaths
    /\ output_file = DeriveOutputFile(input_file, mode)
    /\ disk_file = Some(output_file)
    /\ \E tb \in WideTimeBases :
          /\ streams = [i \in {0} |-> [medium |-> "Video", time_base |-> tb]]
          /\ ist_time_bases = [i \in {0} |-> tb]
    /\ stream_mapping = [i \in {0} |-> MappedOrdinal("Video", 0)]
    /\ ost_time_bases = [i \in {0} |-> MuxerTimeBase(0)]
    /\ transcoders = [i \in {0} |->
            [TranscoderNew(streams[0], 0, TRUE, WithWatermark(mode), WithRecognition(mode))
                EXCEPT !.decoder.pending = 1]]
    /\ ost_index = 1
    /\ octx = [streams |-> 1, header |-> TRUE, packets |-> <<>>, trailer |-> 0]
    /\ receiver = <<>>
    /\ ist_index = 0
    /\ iter = {}
    /\ frame = NoFrame
    /\ io = [nread |-> 1, nsent |-> 0, recv |-> None,
             decoder_error |-> FALSE, watermark_id |-> CallerWatermarkId(mode),
             earlier |-> None, in_handling |-> <<>>]

ProcessWideFrame == ProcessFrameOf(WidePts, WideTexts)

NextFrame ==
    \/ ProcessWideFrame
    \/ FramesDrained

SpecFrame == InitFrame /\ [][NextFrame]_vars

----------------------------------------------------------------------------
(* The naming of the output over many input paths: ffmpeg_encoder with the
   transcoding between the stream loop and the trailer taken as one step *)

MaxPathLen == 5

PathChars == {"a", ".", "/", "-"}

Str_foo_bar_mp4 == <<"f", "o", "o", ".", "b", "a", "r", ".", "m", "p", "4">>

Str_clip_r_candidate_mp4 ==
    <<"c", "l", "i", "p", ".", "r", "_", "c", "a", "n", "d", "i", "d", "a", "t", "e",
      ".", "m", "p", "4">>

Str_a_b_foo_bar_mp4 ==
    <<"a", ".", "b", "/", "f", "o", "o", ".", "b", "a", "r", ".", "m", "p", "4">>

Str_clip_ivf == <<"c", "l", "i", "p", ".", "i", "v", "f">>

WidePaths ==
    SeqsOf(PathChars, 1, MaxPathLen)
        \cup {Str_clip_mp4, Str_foo_bar_mp4, Str_clip_r_candidate_mp4, Str_a_b_foo_bar_mp4,
              Str_clip_ivf}

\* the ids a recognition run can end with
RunIds == {<<"7">>, <<"4", "2">>}

InitPath ==
    /\ pc = "start"
    /\ mode \in Modes
    /\ input_file \in WidePaths
    /\ output_file = <<>>
    /\ disk_file = None
    /\ streams = [i \in {0} |-> [medium |-> "Video", time_base |-> <<1, 1000>>]]
    /\ stream_mapping = [i \in {} |-> 0]
    /\ ist_time_bases = [i \in {} |-> NoTimeBase]
    /\ ost_time_bases = [i \in {} |-> NoTimeBase]
    /\ transcoders = NoTranscoders
    /\ ost_index = 0
    /\ octx = [streams |-> 0, header |-> FALSE, packets |-> <<>>, trailer |-> 0]
    /\ receiver = <<>>
    /\ ist_index = 0
    /\ iter = {}
    /\ frame = NoFrame
    /\ io = [nread |-> 0, nsent |-> 0, recv |-> None,
             decoder_error |-> FALSE, watermark_id |-> CallerWatermarkId(mode),
             earlier |-> None, in_handling |-> <<>>]

\* encoder.rs:63-131 for one video stream: the stream is set up, its packets are
\* transcoded and flushed, the trailer is written; the transcoder ends with an id
\* when it recognizes one
RunToTrailer ==
    /\ pc = "streams"
    /\ stream_mapping' = [i \in {0} |-> MappedOrdinal("Video", 0)]
    /\ ist_time_bases' = [i \in {0} |-> streams[0].time_base]
    /\ ost_time_bases' = [i \in {0} |-> MuxerTimeBase(0)]
    /\ \E id \in (IF WithRecognition(mode) THEN {None} \cup {Some(i) : i \in RunIds}
                   ELSE {None}) :
          transcoders' = [i \in {0} |->
              [TranscoderNew(streams[0], 0, TRUE, WithWatermark(mode), WithRecognition(mode))
                  EXCEPT !.recognized_id = id,
                         !.decoder.eof = TRUE,
                         !.encoder.eof = TRUE,
                         !.calls = <<"send_eof_to_decoder",
                                     "receive_and_process_decoded_frames",
                                     "send_eof_to_encoder",
                                     "receive_and_process_encoded_packets">>]]
    /\ ost_index' = 1
    /\ octx' = [streams |-> 1, header |-> TRUE, packets |-> <<>>, trailer |-> 1]
    /\ iter' = {0}
    /\ pc' = "post"
    /\ UNCHANGED <<mode, input_file, output_file, disk_file, streams, receiver, ist_index,
                   frame, io>>

NextPath ==
    \/ Open
    \/ RunToTrailer
    \/ Finish
    \/ Rename
    \/ RenameFails

SpecPath == InitPath /\ [][NextPath]_vars

----------------------------------------------------------------------------
(* Properties *)

VideoIndexes == {i \in DOMAIN streams : streams[i].medium = "Video"}

\* the number of video streams before input index i
VideosBefore(i) == Cardinality({j \in VideoIndexes : j < i})

\* C1: once the stream loop has run, every non-video stream is mapped to the skip
\* sentinel -1, the video streams are mapped to 0,1,...,k-1 in input order, and a
\* Transcoder exists for exactly the input indexes mapped to a non-skip value
C1_StreamMapping ==
    pc \notin {"start", "streams"} =>
        /\ DOMAIN stream_mapping = DOMAIN streams
        /\ \A i \in DOMAIN streams :
              stream_mapping[i] = IF i \in VideoIndexes THEN VideosBefore(i) ELSE -1
        /\ {stream_mapping[i] : i \in VideoIndexes} = 0..(Cardinality(VideoIndexes) - 1)
        /\ DOMAIN transcoders = {i \in DOMAIN streams : stream_mapping[i] # -1}

\* a non-video stream precedes a video stream: input index 1 is output ordinal 0
C1_Witness ==
    /\ pc = "packets"
    /\ DOMAIN streams = {0, 1}
    /\ streams[0].medium = "Audio"
    /\ streams[1].medium = "Video"
    /\ stream_mapping[0] = -1
    /\ stream_mapping[1] = 0
    /\ DOMAIN transcoders = {1}

FlushCalls ==
    <<"send_eof_to_decoder", "receive_and_process_decoded_frames",
      "send_eof_to_encoder", "receive_and_process_encoded_packets">>

AfterFlush == {"post", "done", "failed"}

\* C2: however the packet loop ends (input exhausted or "stop" polled), control
\* goes to the flush loop; the trailer is written at most once and only after
\* every Transcoder has been flushed in the order decoder end-of-stream, drain of
\* decoded frames, encoder end-of-stream, drain of encoded packets; a run that
\* has left the flush loop has written it exactly once
C2_FlushThenTrailer ==
    /\ [](/\ octx.trailer = IF pc \in AfterFlush THEN 1 ELSE 0
          /\ \A k \in DOMAIN transcoders :
                /\ transcoders[k].calls \in {<<>>, SubSeq(FlushCalls, 1, 2), FlushCalls}
                /\ pc \in AfterFlush =>
                      /\ transcoders[k].calls = FlushCalls
                      /\ transcoders[k].decoder.eof
                      /\ transcoders[k].encoder = [queue |-> <<>>, eof |-> TRUE])
    /\ [][/\ (pc \in {"packets", "poll"} /\ pc' \notin {"packets", "skipped", "decoding", "poll", "panicked"})
                => pc' = "flush"
          /\ octx'.trailer # octx.trailer
                => /\ pc = "flush"
                   /\ \A k \in DOMAIN transcoders : transcoders[k].calls = FlushCalls]_vars

\* a run with two Transcoders that was stopped by the signal and has finished
C2_Witness ==
    /\ pc = "done"
    /\ io.recv = Some("stop")
    /\ Cardinality(DOMAIN transcoders) = 2
    /\ octx.trailer = 1

\* the pattern <digits>-<digits> occurs in the text
HasIdMs(s) ==
    \E p \in 2..(Len(s) - 1) : s[p] = "-" /\ s[p - 1] \in Digits /\ s[p + 1] \in Digits

\* Transcoder k takes one decoded frame in this step
FrameStep(k) ==
    /\ k \in DOMAIN transcoders
    /\ k \in DOMAIN transcoders'
    /\ transcoders'[k].frame_count = transcoders[k].frame_count + 1

\* C3: with a recognizer, a decoded frame in whose text the pattern <id>-<ms> is
\* not found adds exactly 1 to failed_frames, sends nothing to the encoder, writes
\* no packet, and leaves the run in the frame loop
C3_UnrecognizedFrame ==
    [][\A k \in DOMAIN transcoders :
          (FrameStep(k) /\ transcoders[k].tesseract /\ ~HasIdMs(frame'.text)) =>
              /\ transcoders'[k].failed_frames = transcoders[k].failed_frames + 1
              /\ transcoders'[k].encoder = transcoders[k].encoder
              /\ transcoders'[k].decoder.pending = transcoders[k].decoder.pending - 1
              /\ frame'.sent = 0
              /\ octx' = octx
              /\ pc' = pc]_vars

\* a finished run in which two frames of a stream failed recognition
C3_Witness ==
    /\ pc = "done"
    /\ ~HasIdMs(frame.text)
    /\ \E k \in DOMAIN transcoders :
          transcoders[k].tesseract /\ transcoders[k].failed_frames = 2

\* the text without the line feed the recognizer ends it with
StripLf(s) == IF s # <<>> /\ s[Len(s)] = "\n" THEN SubSeq(s, 1, Len(s) - 1) ELSE s

\* where the hyphen of a text <id>-<ms> stands, 0 when the text is not of that form
HyphenOf(s) ==
    IF \E p \in 2..Min({IdMaxDigits + 1, Len(s) - 1}) :
            /\ s[p] = "-"
            /\ Len(s) - p <= TimeMaxDigits
            /\ \A j \in (1..Len(s)) \ {p} : s[j] \in Digits
    THEN CHOOSE p \in 2..Len(s) : s[p] = "-"
    ELSE 0

IdPart(s) == SubSeq(s, 1, HyphenOf(s) - 1)

MsPart(s) == SubSeq(s, HyphenOf(s) + 1, Len(s))

\* floor(ms * den / (1000 * num)) for the time base num/den
FloorPts(ms, tb) == BigDivSmall(BigMulAdd(BigFromDigits(ms), tb[2], 0), 1000 * tb[1])

\* C4: a frame whose text is recognized with millisecond value ms has its pts set
\* to floor(ms * den / (1000 * num)) for the input time base num/den, whatever its
\* pts was, and is sent to the encoder exactly once
C4_PtsIsFloor ==
    (frame.recognized.some /\ HyphenOf(StripLf(frame.text)) > 0) =>
        /\ frame.pts = FloorPts(MsPart(StripLf(frame.text)),
                                transcoders[ist_index].input_time_base)
        /\ frame.sent = 1

\* C5: in watermark mode every Transcoder has the overlay and no recognizer, its
\* failed_frames is 0, every frame it has counted is in the encoder or written to
\* the output (none dropped, none twice), and the frame just processed went
\* through the overlay and was sent once
C5_WatermarkFrames ==
    mode = "Watermark" =>
        /\ \A k \in DOMAIN transcoders :
              /\ transcoders[k].watermark_filter
              /\ ~transcoders[k].tesseract
              /\ transcoders[k].failed_frames = 0
              /\ transcoders[k].frame_count =
                    Len(transcoders[k].encoder.queue)
                        + Cardinality({i \in DOMAIN octx.packets :
                                        octx.packets[i].stream = transcoders[k].ost_index})
        /\ frame # NoFrame => (frame.filtered /\ frame.sent = 1 /\ frame.pts = frame.pts_in)

\* a finished watermark run in which a stream had two frames
C5_Witness ==
    /\ mode = "Watermark"
    /\ pc = "done"
    /\ frame.filtered
    /\ \E k \in DOMAIN transcoders : transcoders[k].frame_count = 2

\* the path ends in an extension: a dot that is not its first character, followed
\* by one or more word characters up to the end
HasExtension(path) ==
    \E i \in 2..(Len(path) - 1) :
        path[i] = "." /\ \A j \in (i + 1)..Len(path) : path[j] \in WordChars

\* the path up to its last dot
Stem(path) == SubSeq(path, 1, Max({i \in 1..Len(path) : path[i] = "."}) - 1)

Str_foo_bar == <<"f", "o", "o", ".", "b", "a", "r">>

Renamed ==
    /\ pc = "done"
    /\ mode = "Process"
    /\ \E k \in DOMAIN transcoders : transcoders[k].recognized_id.some

\* the length of the directory part of a path, through its last slash
DirLen(path) == Max({0} \cup {i \in 1..Len(path) : path[i] = "/"})

BaseName(path) == SubSeq(path, DirLen(path) + 1, Len(path))

\* the file name has a stem, a dot and something after it
HasStemAndSuffix(name) ==
    \E i \in 2..(Len(name) - 1) : name[i] = "." /\ \A j \in 1..(i - 1) : name[j] # "."

\* `foo.<id>.ivf` in the directory of the path, foo being the file name up to its
\* first dot
NameWithId(path, id) ==
    SubSeq(path, 1, DirLen(path))
        \o SubSeq(BaseName(path), 1, Min({i \in 1..Len(BaseName(path)) : BaseName(path)[i] = "."}) - 1)
        \o <<".">> \o id \o <<".", "i", "v", "f">>

\* C7: a recognition run that ends with an id leaves its output as `foo.<id>.ivf`
\* in the directory of the input `foo.bar.mp4`, whatever the directory part is; a
\* run without an id, and every watermark run, leaves it at the derived path
C7_RenamedInPlace ==
    pc = "done" =>
        /\ (Renamed /\ HasStemAndSuffix(BaseName(input_file))) =>
              \E k \in DOMAIN transcoders :
                  disk_file = Some(NameWithId(input_file, transcoders[k].recognized_id.v))
        /\ ~Renamed => disk_file = Some(output_file)

\* the decimal text of a natural number
RECURSIVE Decimal(_)
Decimal(n) == IF n < 10 THEN <<DigitChar(n)>> ELSE Append(Decimal(n \div 10), DigitChar(n % 10))

\* C8: a Transcoder with a recognizer holds an id exactly when it has recognized
\* a frame; the id appears in the step that recognizes a frame, as that frame's
\* id, and once held it never changes, whatever later frames are recognized as
C8_FirstSeenWins ==
    /\ [](\A k \in DOMAIN transcoders :
            /\ transcoders[k].recognized_id.some =>
                  (transcoders[k].tesseract
                     /\ transcoders[k].frame_count > transcoders[k].failed_frames)
            /\ (transcoders[k].tesseract
                   /\ transcoders[k].frame_count > transcoders[k].failed_frames)
                  => transcoders[k].recognized_id.some)
    /\ [][\A k \in DOMAIN transcoders \cap DOMAIN transcoders' :
            /\ transcoders[k].recognized_id.some =>
                  transcoders'[k].recognized_id = transcoders[k].recognized_id
            /\ (~transcoders[k].recognized_id.some /\ transcoders'[k].recognized_id.some) =>
                  /\ FrameStep(k)
                  /\ frame'.recognized.some
                  /\ transcoders'[k].recognized_id = Some(Decimal(frame'.recognized.v.id))
            /\ (FrameStep(k) /\ ~frame'.recognized.some) =>
                  transcoders'[k].recognized_id = transcoders[k].recognized_id]_vars

\* a Transcoder holds id 7 after a later frame was recognized with id 12
C8_Witness ==
    /\ frame.recognized.some
    /\ frame.recognized.v.id = 12
    /\ \E k \in DOMAIN transcoders :
          /\ transcoders[k].recognized_id = Some(<<"7">>)
          /\ transcoders[k].frame_count = 2
          /\ transcoders[k].failed_frames = 0

\* the value of a decimal numeral of at most nine digits
RECURSIVE DecimalValue(_)
DecimalValue(ds) ==
    IF ds = <<>> THEN 0
    ELSE 10 * DecimalValue(SubSeq(ds, 1, Len(ds) - 1)) + DigitVal(ds[Len(ds)])

\* |a - b| of two big integers
BigDist(a, b) == IF BigCmp(a, b) >= 0 THEN BigSub(a, b) ELSE BigSub(b, a)

\* x = [m, e] is the double nearest to n / d (ties to even), for 0 <= n / d < 2^52
IsNearestF64(x, n, d) ==
    IF n = <<>> THEN x.m = <<>>
    ELSE /\ x.e < 0
         /\ BigCmp(x.m, BigShl(<<1>>, 52)) >= 0
         /\ BigCmp(x.m, F64MantLimit) < 0
         /\ LET err2 == BigDouble(BigDist(BigMulAdd(x.m, d, 0), BigShl(n, 0 - x.e)))
                c == BigCmp(err2, BigFromInt(d))
            IN  c < 0 \/ (c = 0 /\ ~BigIsOdd(x.m))

\* C9: a text <id>-<ms> with an id of 1 to 3 digits and a millisecond value of 1
\* to 13 digits is recognized with the integer value of the id and with the time
\* ms / 1000 seconds (the nearest double); `7-1234` gives id 7 and time 1.234
C9_RoundTrip ==
    HyphenOf(StripLf(frame.text)) > 0 =>
        /\ frame.recognized.some
        /\ frame.recognized.v.id = DecimalValue(IdPart(StripLf(frame.text)))
        /\ IsNearestF64(frame.recognized.v.time,
                        BigFromDigits(MsPart(StripLf(frame.text))), 1000)
        /\ StripLf(frame.text) = <<"7", "-", "1", "2", "3", "4">> =>
              frame.recognized.v =
                  [id |-> 7, time |-> [m |-> <<5192, 4017, 4419, 5557>>, e |-> -52]]

\* the frame with the text `7-1234` has been recognized
C9_Witness ==
    /\ frame.text = <<"7", "-", "1", "2", "3", "4">>
    /\ frame.recognized.some
    /\ frame.sent = 1

\* C10, as the code has it: a poll that receives a value takes it off the
\* channel and ends the packet loop exactly when the value is "stop"; any other
\* value is discarded and the loop goes on with the next packet; once "stop" was
\* received no further packet is read
C10_OnlyStopStops ==
    [][/\ (pc = "poll" /\ receiver # <<>>) =>
             /\ receiver' = Tail(receiver)
             /\ io'.recv = Some(Head(receiver))
             /\ pc' = IF Head(receiver) = "stop" THEN "flush" ELSE "packets"
       /\ io.recv = Some("stop") => (io'.nread = io.nread /\ io'.recv = io.recv)]_vars

\* the poll has received "stop" and the run is in the flush loop
C10_Witness ==
    /\ io.recv = Some("stop")
    /\ pc = "flush"
    /\ io.nread < MaxPackets

\* C10 as stated: whatever value the poll receives, the packet loop ends
C10_AnyValueStops ==
    [][(pc = "poll" /\ receiver # <<>>) => pc' = "flush"]_vars

\* a is an initial part of b
IsPrefix(a, b) == Len(a) <= Len(b) /\ SubSeq(b, 1, Len(a)) = a

\* C11: once the poll has received "stop", no further packet is read from the
\* input and no decoder is given a packet; and in every step the packets already
\* written to the output stay in it, in place
C11_NothingAfterStop ==
    [][/\ io.recv = Some("stop") =>
             /\ io'.nread = io.nread
             /\ pc' \notin {"packets", "skipped", "decoding", "poll"}
             /\ \A k \in DOMAIN transcoders :
                   transcoders'[k].decoder.pending <= transcoders[k].decoder.pending
       /\ IsPrefix(octx.packets, octx'.packets)]_vars

\* "stop" was received after the first packet, whose frame is already written,
\* and the run has finished with that packet in the output
C11_Witness ==
    /\ io.recv = Some("stop")
    /\ io.nread = 1
    /\ pc = "done"
    /\ \E k \in DOMAIN transcoders :
          transcoders[k].frame_count = 1 /\ transcoders[k].failed_frames = 0
    /\ Len(octx.packets) = 1

\* C12: once the decoder has reported an error, while a packet is fed or while
\* frames are pulled, the run has ended abnormally (an error returned, or the
\* panic of an unwrap) and goes on with nothing
C12_DecoderErrorIsFatal ==
    io.decoder_error => pc \in {"failed", "panicked"}

\* C13: in watermark mode the overlay of every Transcoder renders the id the
\* caller gave, and the literal id `1` only when the caller's id is empty
C13_OverlayCarriesCallerId ==
    (mode = "Watermark" /\ io.watermark_id.some) =>
        \A k \in DOMAIN transcoders :
            transcoders[k].overlay_id =
                Some(IF io.watermark_id.v = <<>> THEN <<"1">> ELSE io.watermark_id.v)

----------------------------------------------------------------------------
(* One decoded frame of a Transcoder built by Transcoder::new with any pair of
   flags with_watermark, with_recognition (transcoder.rs:83-90) *)

InitVariant ==
    /\ pc = "decoding"
    /\ mode \in Modes
    /\ input_file \in RunPaths
    /\ output_file = DeriveOutputFile(input_file, mode)
    /\ disk_file = Some(output_file)
    /\ \E tb \in WideTimeBases :
          /\ streams = [i \in {0} |-> [medium |-> "Video", time_base |-> tb]]
          /\ ist_time_bases = [i \in {0} |-> tb]
    /\ stream_mapping = [i \in {0} |-> MappedOrdinal("Video", 0)]
    /\ ost_time_bases = [i \in {0} |-> MuxerTimeBase(0)]
    /\ \E with_watermark \in BOOLEAN, with_recognition \in BOOLEAN :
          transcoders = [i \in {0} |->
              [TranscoderNew(streams[0], 0, TRUE, with_watermark, with_recognition)
                  EXCEPT !.decoder.pending = 1]]
    /\ ost_index = 1
    /\ octx = [streams |-> 1, header |-> TRUE, packets |-> <<>>, trailer |-> 0]
    /\ receiver = <<>>
    /\ ist_index = 0
    /\ iter = {}
    /\ frame = NoFrame
    /\ io = [nread |-> 1, nsent |-> 0, recv |-> None,
             decoder_error |-> FALSE, watermark_id |-> CallerWatermarkId(mode),
             earlier |-> None, in_handling |-> <<>>]

SpecVariant == InitVariant /\ [][NextFrame]_vars

WatermarkIds == {Str_42, <<"7">>}

\* encoder.rs:14-27, called a second time
RunAgain ==
    /\ pc \in {"done", "failed"}
    /\ ~io.earlier.some
    /\ mode' \in Modes
    /\ \E id \in (IF mode' = "Watermark" THEN {Some(i) : i \in WatermarkIds} ELSE {None}) :
          io' = [io EXCEPT
                    !.watermark_id = id,
                    !.earlier = Some([input_file |-> input_file,
                                      mode |-> mode,
                                      watermark_id |-> io.watermark_id,
                                      output_file |-> output_file,
                                      disk_file |-> disk_file])]
    /\ output_file' = <<>>
    /\ stream_mapping' = [i \in {} |-> 0]
    /\ ist_time_bases' = [i \in {} |-> NoTimeBase]
    /\ ost_time_bases' = [i \in {} |-> NoTimeBase]
    /\ transcoders' = NoTranscoders
    /\ ost_index' = 0
    /\ octx' = [streams |-> 0, header |-> FALSE, packets |-> <<>>, trailer |-> 0]
    /\ iter' = {}
    /\ pc' = "start"
    /\ UNCHANGED <<input_file, disk_file, streams, receiver, ist_index, frame>>

NextTwice ==
    \/ Open
    \/ RunToTrailer
    \/ Finish
    \/ Rename
    \/ RenameFails
    \/ RunAgain

SpecTwice == InitPath /\ [][NextTwice]_vars

\* ---------------------------------------------------------------------------
\* C15: when the rename after the run fails, the run returns the error, the
\* trailer has already been written exactly once, the failing step writes
\* nothing more to the output, and the finished file is still at the derived
\* output path.
C15_RenameFailureKeepsOutput ==
    /\ [](pc = "failed" =>
             /\ octx.header
             /\ octx.trailer = 1
             /\ disk_file = Some(output_file)
             /\ output_file = DeriveOutputFile(input_file, mode))
    /\ [][pc' = "failed" =>
             /\ pc = "post"
             /\ octx.trailer = 1
             /\ octx' = octx
             /\ disk_file' = disk_file]_vars

C15_Witness ==
    /\ pc = "failed"
    /\ mode = "Process"
    /\ Len(octx.packets) >= 1
    /\ \E k \in DOMAIN transcoders :
          /\ transcoders[k].recognized_id.some
          /\ NewOutputFile(input_file, transcoders[k].recognized_id.v) # output_file

\* ---------------------------------------------------------------------------
\* the packets of the output that carry the ordinal of Transcoder t
PacketsOf(t) == {i \in DOMAIN octx.packets : octx.packets[i].stream = t.ost_index}

\* C16: flush completeness. Each step of the drain of the decoder takes one
\* frame out of a finite buffer or ends the drain, so the drain terminates; and
\* once the flush of a Transcoder has returned, its decoder holds no decoded
\* frame, its encoder holds no packet, and every frame that was sent to the
\* encoder has its packet in the output.
C16_FlushComplete ==
    /\ [](pc \in AfterFlush =>
             \A k \in DOMAIN transcoders :
                /\ transcoders[k].decoder.pending = 0
                /\ transcoders[k].encoder.queue = <<>>
                /\ Cardinality(PacketsOf(transcoders[k]))
                      = transcoders[k].frame_count - transcoders[k].failed_frames)
    /\ [][pc = "flush_decoding" =>
             \/ transcoders'[ist_index].decoder.pending
                   < transcoders[ist_index].decoder.pending
             \/ pc' = "flush"]_vars

C18_PacketsStampedAndRescaled ==
    \A i \in DOMAIN octx.packets :
       \E k \in DOMAIN transcoders :
          /\ octx.packets[i].stream = stream_mapping[k]
          /\ octx.packets[i].time_base = MuxerTimeBase(stream_mapping[k])
          /\ octx.packets[i].time_base = ost_time_bases[stream_mapping[k]]
          /\ octx.packets[i].pts # "NOPTS"
          /\ mode = "Watermark" =>
                \E pts \in FramePts :
                   octx.packets[i].pts
                      = RescaleTs(pts, ist_time_bases[k], ost_time_bases[stream_mapping[k]])

\* ---------------------------------------------------------------------------
\* C19: the channel is polled once in every iteration of the packet loop, after
\* every packet, skipped packets included: the handling of a packet ends at the
\* poll, and no packet is taken while a "stop" that was sent during the
\* handling of an earlier packet is still in the channel.
C19_PollAfterEveryPacket ==
    [][/\ pc \in {"decoding", "skipped"} => pc' \in {pc, "poll"}
       /\ io'.nread = io.nread + 1 =>
             \A i \in DOMAIN receiver :
                ~(receiver[i] = "stop" /\ io.in_handling[i])]_vars

\* ---------------------------------------------------------------------------
\* the time bases read from the output streams after the header was written
CapturedTimeBases == {MuxerTimeBase(o) : o \in 0..(octx.streams - 1)}

\* C20: the protocol of the output container. A packet is written only after
\* the header was written and the time bases of the output streams were
\* captured; every packet was rescaled to one of the time bases read after the
\* header write; and no packet is written once the trailer is written.
C20_ContainerProtocol ==
    /\ [](octx.packets # <<>> =>
             /\ octx.header
             /\ \A o \in 0..(octx.streams - 1) : ost_time_bases[o] = MuxerTimeBase(o))
    /\ [](\A i \in DOMAIN octx.packets : octx.packets[i].time_base \in CapturedTimeBases)
    /\ [][octx'.packets # octx.packets =>
             /\ octx.header
             /\ octx.trailer = 0
             /\ octx'.trailer = 0]_vars

\* ---------------------------------------------------------------------------
\* Progress logging, transcoder.rs:213-217 and 319-332. Time is a clock in
\* milliseconds; last_log_time is the reading of the clock at the last line.

\* transcoder.rs:321
LogEveryFrames == 100

\* transcoder.rs:322: 1.0 second
LogEveryMs == 1000

MaxFrames == 101

TickMs == 500

MaxClockMs == 1000

\* 2^31 and 2^32
Two31 == BigShl(<<1>>, 31)

Two32 == BigShl(<<1>>, 32)

\* the raw timestamps of the frames: small, i32::MAX, 2^31, 2^32 + 40
RawTimestamps == {<<40>>, BigSub(Two31, <<1>>), Two31, BigMulAdd(Two32, 1, 40)}

\* the time bases of the logged streams (numerator 1: the product with an i32
\* then has 32-bit terms, which av_mul_q keeps as they are)
LogTimeBases == {<<1, 1000>>, <<1, 90000>>}

\* `timestamp as i32` on a non-negative i64: the low 32 bits, read as a signed
\* number, as sign and magnitude
TimestampAsI32(ts) ==
    LET low == BigSub(ts, BigShl(BigShr(ts, 32), 32))
    IN  IF BigCmp(low, Two31) >= 0
        THEN [neg |-> TRUE, mag |-> BigSub(Two32, low)]
        ELSE [neg |-> FALSE, mag |-> low]

\* transcoder.rs:215-217: f64::from(Rational(timestamp as i32, 1) * input_time_base),
\* a signed double
TimestampSeconds(ts, tb) ==
    LET n == TimestampAsI32(ts)
    IN  [neg |-> n.neg /\ n.mag # <<>>,
         v |-> F64Div(F64FromBig(BigMulAdd(n.mag, tb[1], 0)), F64FromBig(BigFromInt(tb[2])))]

SecondsTable == [x \in RawTimestamps \X LogTimeBases |-> TimestampSeconds(x[1], x[2])] @@ <<>>

\* a variant of LogProgress that logs only when both thresholds are reached
LogProgressBoth(t, now, timestamp) ==
    IF \/ ~t.logging_enabled
       \/ t.frame_count - t.last_log_frame_count < LogEveryFrames
       \/ now - t.last_log_time < LogEveryMs
    THEN [t |-> t, line |-> None]
    ELSE [t |-> [t EXCEPT !.last_log_frame_count = t.frame_count, !.last_log_time = now],
          line |-> Some([frame_count |-> t.frame_count,
                         timestamp |-> timestamp,
                         failed |-> t.failed_frames])]

\* transcoder.rs:319-332
LogProgress(t, now, timestamp) ==
    IF \/ ~t.logging_enabled
       \/ /\ t.frame_count - t.last_log_frame_count < LogEveryFrames
          /\ now - t.last_log_time < LogEveryMs
    THEN [t |-> t, line |-> None]
    ELSE [t |-> [t EXCEPT !.last_log_frame_count = t.frame_count, !.last_log_time = now],
          line |-> Some([frame_count |-> t.frame_count,
                         timestamp |-> timestamp,
                         failed |-> t.failed_frames])]

\* transcoder.rs:186-189: the Transcoder as constructed, with its log fields
InitLog ==
    /\ pc = "decoding"
    /\ mode = "Watermark"
    /\ input_file \in RunPaths
    /\ output_file = DeriveOutputFile(input_file, mode)
    /\ disk_file = Some(output_file)
    /\ \E tb \in LogTimeBases :
          /\ streams = [i \in {0} |-> [medium |-> "Video", time_base |-> tb]]
          /\ ist_time_bases = [i \in {0} |-> tb]
    /\ stream_mapping = [i \in {0} |-> MappedOrdinal("Video", 0)]
    /\ ost_time_bases = [i \in {0} |-> MuxerTimeBase(0)]
    /\ \E enable_logging \in BOOLEAN :
          transcoders = [i \in {0} |->
              [last_log_frame_count |-> 0, last_log_time |-> 0]
                 @@ TranscoderNew(streams[0], 0, enable_logging,
                                  WithWatermark(mode), WithRecognition(mode))]
    /\ ost_index = 1
    /\ octx = [streams |-> 1, header |-> TRUE, packets |-> <<>>, trailer |-> 0]
    /\ receiver = <<>>
    /\ ist_index = 0
    /\ iter = {}
    /\ frame = [timestamp |-> <<>>]
    /\ io = [now |-> 0, line |-> None, ncalls |-> 0]

\* transcoder.rs:212-217: a frame is received, counted, and log_progress is
\* called with its time in seconds
LogFrame ==
    /\ pc = "decoding"
    /\ transcoders[0].frame_count < MaxFrames
    /\ \E ts \in RawTimestamps :
       \E r \in {LogProgress([transcoders[0] EXCEPT !.frame_count = @ + 1], io.now,
                              SecondsTable[<<ts, transcoders[0].input_time_base>>])} :
          /\ transcoders' = [transcoders EXCEPT ![0] = r.t]
          /\ io' = [io EXCEPT !.line = r.line, !.ncalls = @ + 1]
          /\ frame' = [timestamp |-> ts]
    /\ UNCHANGED <<pc, mode, input_file, output_file, disk_file, streams, stream_mapping,
                   ist_time_bases, ost_time_bases, ost_index, octx, receiver, ist_index, iter>>

\* the wall clock advances
ClockTick ==
    /\ io.now < MaxClockMs
    /\ io' = [io EXCEPT !.now = @ + TickMs]
    /\ UNCHANGED <<pc, mode, input_file, output_file, disk_file, streams, stream_mapping,
                   ist_time_bases, ost_time_bases, transcoders, ost_index, octx, receiver,
                   ist_index, iter, frame>>

NextLog ==
    \/ LogFrame
    \/ ClockTick

SpecLog == InitLog /\ [][NextLog]_vars

\* what the step is when it is a call of log_progress
LogCalled == io'.ncalls = io.ncalls + 1

FramesSinceLog == transcoders'[0].frame_count - transcoders[0].last_log_frame_count

ElapsedMs == io.now - transcoders[0].last_log_time

LogFieldsUnchanged ==
    /\ transcoders'[0].last_log_frame_count = transcoders[0].last_log_frame_count
    /\ transcoders'[0].last_log_time = transcoders[0].last_log_time

\* C21, amended: log_progress emits a line exactly when logging is enabled and
\* at least 100 frames were counted since the last logged frame OR at least one
\* second has elapsed since the last line; the line resets both marks, and a call
\* that emits nothing leaves them unchanged.
C21_LogThrottle ==
    [][LogCalled =>
          /\ io'.line.some <=>
                /\ transcoders[0].logging_enabled
                /\ FramesSinceLog >= LogEveryFrames \/ ElapsedMs >= LogEveryMs
          /\ io'.line.some =>
                /\ transcoders'[0].last_log_frame_count = transcoders'[0].frame_count
                /\ transcoders'[0].last_log_time = io.now
                /\ io'.line.v.frame_count = transcoders'[0].frame_count
          /\ ~io'.line.some => LogFieldsUnchanged]_vars

\* a line emitted after one second with fewer than 100 frames since the last one
C21_Witness ==
    /\ io.line.some
    /\ transcoders[0].last_log_time = LogEveryMs
    /\ transcoders[0].last_log_frame_count \in 1..(LogEveryFrames - 1)

\* C21 as stated: a line is emitted only when at least 100 frames were counted
\* since the last logged frame AND at least one second has elapsed; otherwise
\* nothing is logged and the marks are unchanged.
C21_BothThresholds ==
    [][LogCalled =>
          /\ io'.line.some =>
                /\ transcoders[0].logging_enabled
                /\ FramesSinceLog >= LogEveryFrames
                /\ ElapsedMs >= LogEveryMs
          /\ ~io'.line.some => LogFieldsUnchanged]_vars

\* ---------------------------------------------------------------------------
\* The band at the top of the frame, transcoder.rs:132-141 and 244-245. The
\* quotient h / 15 is an f32; for the heights of a frame it is never within
\* rounding distance of an integer or of a half, so round and the cast are
\* computed on the exact quotient.

MaxHeight == 64

\* every small height, and the heights of common frames
Heights == (1..MaxHeight) \cup {144, 720, 1088}

\* transcoder.rs:133: (decoder.height() as f32 / 15.0).round() as i32
TextHeight(h) == (2 * h + 15) \div 30

\* transcoder.rs:245: (image.height() as f32 / 15f32) as u32
CropHeight(h) == h \div 15

InitBand ==
    /\ pc = "start"
    /\ mode \in Modes
    /\ input_file \in RunPaths
    /\ output_file = DeriveOutputFile(input_file, mode)
    /\ disk_file = Some(output_file)
    /\ \E h \in Heights :
          streams = [i \in {0} |->
                        [medium |-> "Video", time_base |-> <<1, 1000>>, height |-> h]]
    /\ ist_time_bases = [i \in {0} |-> <<1, 1000>>]
    /\ stream_mapping = [i \in {0} |-> MappedOrdinal("Video", 0)]
    /\ ost_time_bases = [i \in {0} |-> NoTimeBase]
    /\ transcoders = NoTranscoders
    /\ ost_index = 0
    /\ octx = [streams |-> 0, header |-> FALSE, packets |-> <<>>, trailer |-> 0]
    /\ receiver = <<>>
    /\ ist_index = 0
    /\ iter = {}
    /\ frame = [crop_height |-> None]
    /\ io = [nread |-> 0]

\* transcoder.rs:83-195: the overlay variant is built with the height of its band
NewBandTranscoder ==
    /\ pc = "start"
    /\ transcoders' = [i \in {0} |->
          [text_height |-> IF WithWatermark(mode)
                           THEN Some(TextHeight(streams[0].height)) ELSE None]
             @@ TranscoderNew(streams[0], 0, TRUE, WithWatermark(mode), WithRecognition(mode))]
    /\ ost_index' = 1
    /\ octx' = [octx EXCEPT !.streams = 1]
    /\ pc' = "decoding"
    /\ UNCHANGED <<mode, input_file, output_file, disk_file, streams, stream_mapping,
                   ist_time_bases, ost_time_bases, receiver, ist_index, iter, frame, io>>

\* transcoder.rs:244-245: the recognition variant crops the top of a frame
CropTop ==
    /\ pc = "decoding"
    /\ transcoders[0].tesseract
    /\ io.nread < MaxPackets
    /\ frame' = [crop_height |-> Some(CropHeight(streams[0].height))]
    /\ io' = [io EXCEPT !.nread = @ + 1]
    /\ UNCHANGED <<pc, mode, input_file, output_file, disk_file, streams, stream_mapping,
                   ist_time_bases, ost_time_bases, transcoders, ost_index, octx, receiver,
                   ist_index, iter>>

NextBand ==
    \/ NewBandTranscoder
    \/ CropTop

SpecBand == InitBand /\ [][NextBand]_vars

\* C22: for every frame height, the band that the recognition variant crops
\* is as high as the band that the overlay variant draws for a frame of that
\* height.
C22_CropCoversBand ==
    /\ frame.crop_height.some =>
          frame.crop_height.v = TextHeight(streams[0].height)
    /\ \A k \in DOMAIN transcoders :
          transcoders[k].text_height.some =>
             transcoders[k].text_height.v = CropHeight(streams[0].height)

\* ---------------------------------------------------------------------------
\* C23: a text is recognized only when the whole trimmed text has the form
\* <1-3 digits>-<1-13 digits>; the id and the time of a recognized frame are
\* then the two digit runs of the text, never a part of a longer run.
C23_WholeTextMatches ==
    frame.recognized.some =>
       /\ HyphenOf(Trim(frame.text)) # 0
       /\ frame.recognized.v.id = ParseI32(IdPart(Trim(frame.text)))
       /\ frame.recognized.v.time
             = F64Div(ParseF64(MsPart(Trim(frame.text))), F64FromBig(BigFromInt(1000)))

\* ---------------------------------------------------------------------------
\* C24: the output path that a run derives and opens for writing is never the
\* input path, for every input path and both modes.
C24_OutputIsNotInput ==
    pc # "start" => (output_file # input_file /\ disk_file # Some(input_file))

\* ---------------------------------------------------------------------------
\* the frames that Transcoder t has sent to its encoder: those still in the
\* encoder and those whose packet is in the output
FramesSent(t) == Len(t.encoder.queue) + Cardinality(PacketsOf(t))

\* C25: for every Transcoder, at every point of a run, frame_count is the number
\* of frames sent to the encoder plus failed_frames; neither counter ever
\* decreases; and frame_count grows by exactly 1 with each frame taken from the
\* decoder, and only then.
C25_Counters ==
    /\ [](\A k \in DOMAIN transcoders :
             transcoders[k].frame_count
                = FramesSent(transcoders[k]) + transcoders[k].failed_frames)
    /\ [][\A k \in DOMAIN transcoders \cap DOMAIN transcoders' :
             /\ transcoders'[k].frame_count >= transcoders[k].frame_count
             /\ transcoders'[k].failed_frames >= transcoders[k].failed_frames
             /\ transcoders'[k].frame_count - transcoders[k].frame_count
                   = IF transcoders'[k].decoder.pending < transcoders[k].decoder.pending
                     THEN 1 ELSE 0
             /\ transcoders'[k].decoder.pending >= transcoders[k].decoder.pending - 1]_vars

\* a finished recognition run in which a stream sent one frame and failed one
C25_Witness ==
    /\ pc = "done"
    /\ \E k \in DOMAIN transcoders :
          /\ transcoders[k].frame_count = 2
          /\ transcoders[k].failed_frames = 1
          /\ Cardinality(PacketsOf(transcoders[k])) = 1

\* ---------------------------------------------------------------------------
\* raw_timestamp * input_time_base as a double, for a non-negative timestamp
ExactSeconds(ts, tb) ==
    [neg |-> FALSE,
     v |-> F64Div(F64FromBig(BigMulAdd(ts, tb[1], 0)), F64FromBig(BigFromInt(tb[2])))]

\* C26: the time in seconds that is passed to progress logging is the raw
\* timestamp of the frame times the input time base, for every raw timestamp,
\* those above 2^31 - 1 included.
C26_LoggedSeconds ==
    io.line.some =>
       io.line.v.timestamp = ExactSeconds(frame.timestamp, transcoders[0].input_time_base)

====
